---- MODULE Spec2Model ----
(***************************************************************************)
(* Grievance-ticketing application: the ticket classification gateway      *)
(* (lib/ml: classifyTicket, classifyWithAPI, classifyLocally), the         *)
(* classifier service (rule router, hierarchical models, department code   *)
(* map, POST /classify), the ticket-creation page that consumes the        *)
(* classification and inserts the ticket with its ticket number, the       *)
(* status update of a ticket by an admin, and the routes of the            *)
(* application with ProtectedRoute and the Index page.                     *)
(*                                                                         *)
(* Strings are TLA+ strings handled character by character (Len, SubSeq,   *)
(* \o).  Confidences are integers in hundredths (0.65 is 65).              *)
(***************************************************************************)
EXTENDS Integers, Sequences, FiniteSets, TLC

(***************************************************************************)
(* JavaScript / Python string primitives used by the code.                 *)
(***************************************************************************)
UPPER == "ABCDEFGHIJKLMNOPQRSTUVWXYZ"
LOWER == "abcdefghijklmnopqrstuvwxyz"
DIGITS == "0123456789"

Char(s, i) == SubSeq(s, i, i)

\* String.prototype.includes / Python's `sub in s`
includes(s, sub) ==
    \E i \in 0..(Len(s) - Len(sub)) : SubSeq(s, i + 1, i + Len(sub)) = sub

\* the lower-case letter of every upper-case letter
RECURSIVE LowerTableFrom(_)
LowerTableFrom(i) ==
    IF i = Len(UPPER) THEN Char(UPPER, i) :> Char(LOWER, i)
    ELSE (Char(UPPER, i) :> Char(LOWER, i)) @@ LowerTableFrom(i + 1)

LowerTable == LowerTableFrom(1)

LowerChar(c) == IF c \in DOMAIN LowerTable THEN LowerTable[c] ELSE c

RECURSIVE LowerFrom(_, _)
LowerFrom(s, i) ==
    IF i > Len(s) THEN "" ELSE LowerChar(Char(s, i)) \o LowerFrom(s, i + 1)

\* String.prototype.toLowerCase / str.lower
toLowerCase(s) == LowerFrom(s, 1)

\* the regex class \w
IsWordChar(c) == includes(LOWER, c) \/ includes(UPPER, c) \/ includes(DIGITS, c) \/ c = "_"

\* the regex class \s (the texts of the model hold no other white space)
IsSpace(c) == c = " "

\* the regex assertion \b between the characters i and i+1 of text
WordBoundary(text, i) ==
    LET left  == i >= 1 /\ IsWordChar(Char(text, i))
        right == i < Len(text) /\ IsWordChar(Char(text, i + 1))
    IN  left # right

\* new RegExp(`\\b${keyword}\\b`, 'gi') matching at position i of text.  The
\* text is lower case already and so is every keyword, so the i flag
\* changes no match and the characters are compared as they are.
MatchAt(text, keyword, i) ==
    /\ i + Len(keyword) - 1 <= Len(text)
    /\ SubSeq(text, i, i + Len(keyword) - 1) = keyword
    /\ WordBoundary(text, i - 1)
    /\ WordBoundary(text, i + Len(keyword) - 1)

\* text.match(regex) with the g flag: the matches found scanning left to
\* right, each search resuming after the previous match; null counts 0
RECURSIVE CountMatches(_, _, _)
CountMatches(text, keyword, i) ==
    IF i + Len(keyword) - 1 > Len(text) THEN 0
    ELSE IF MatchAt(text, keyword, i)
         THEN 1 + CountMatches(text, keyword, i + Len(keyword))
         ELSE CountMatches(text, keyword, i + 1)

\* text.split(/\s+/).length: one more than the number of white-space runs
totalWordsOf(text) ==
    1 + Cardinality({i \in 1..Len(text) :
            IsSpace(Char(text, i)) /\ (i = 1 \/ ~IsSpace(Char(text, i - 1)))})

(***************************************************************************)
(* lib/ml: the local keyword classifier.                                   *)
(***************************************************************************)
CATEGORY_MAPPINGS == <<
    [category |-> "FEES", code |-> "FEES",
     keywords |-> <<"fees", "payment", "challan", "tuition", "scholarship", "refund", "billing">>],
    [category |-> "IT_SUPPORT", code |-> "IT_SUPPORT",
     keywords |-> <<"wifi", "portal", "lms", "blackboard", "login", "email", "password", "internet", "network", "moodle">>],
    [category |-> "LIB", code |-> "LIB",
     keywords |-> <<"library", "book", "issue", "return", "borrow", "journal", "reading">>],
    [category |-> "HOSTEL", code |-> "HOSTEL",
     keywords |-> <<"hostel", "room", "mess", "accommodation", "dorm", "residence">>],
    [category |-> "EXAMS", code |-> "EXAMS",
     keywords |-> <<"exam", "grade", "revaluation", "marks", "result", "assessment", "test">>],
    [category |-> "ACAD_OFFICE", code |-> "ACAD_OFFICE",
     keywords |-> <<"timetable", "course", "faculty", "schedule", "syllabus", "curriculum", "academic">>],
    [category |-> "SECURITY", code |-> "SECURITY",
     keywords |-> <<"id card", "security", "gate", "access", "entry", "badge">>],
    [category |-> "INFRA", code |-> "INFRA",
     keywords |-> <<"maintenance", "ac", "lift", "classroom", "infrastructure", "repair", "fan", "light", "toilet">>],
    [category |-> "PLACEMENT", code |-> "PLACEMENT",
     keywords |-> <<"placement", "job", "recruitment", "interview", "company">>],
    [category |-> "INTERNSHIPS", code |-> "INTERNSHIPS",
     keywords |-> <<"internship", "intern", "industry project", "summer training">>],
    [category |-> "SPORTS", code |-> "SPORTS",
     keywords |-> <<"sports", "gym", "fitness", "athletic", "tournament", "game">>],
    [category |-> "CULTURAL", code |-> "CULTURAL",
     keywords |-> <<"cultural", "fest", "event", "performance", "club activity">>],
    [category |-> "STU_COUNCIL", code |-> "STU_COUNCIL",
     keywords |-> <<"council", "student body", "representation", "mpstme">>],
    [category |-> "LABS", code |-> "LABS",
     keywords |-> <<"lab", "laboratory", "equipment", "experiment", "practical">>],
    [category |-> "TRANSPORT", code |-> "TRANSPORT",
     keywords |-> <<"bus", "transport", "shuttle", "commute", "vehicle">>],
    [category |-> "CANTEEN", code |-> "CANTEEN",
     keywords |-> <<"canteen", "cafeteria", "food", "mess", "dining">>]
>>

\* an inner loop that stops after the first keyword of the category
ScoreOfFirstKeyword(text, keywords, k) ==
    IF k > Len(keywords) THEN 0 ELSE CountMatches(text, keywords[k], 1)

\* the inner loop of classifyLocally: the score of one category
RECURSIVE ScoreOf(_, _, _)
ScoreOf(text, keywords, k) ==
    IF k > Len(keywords) THEN 0
    ELSE CountMatches(text, keywords[k], 1) + ScoreOf(text, keywords, k + 1)

\* the scores record, in the order of Object.entries(CATEGORY_MAPPINGS)
scoresOf(text) ==
    [c \in 1..Len(CATEGORY_MAPPINGS) |-> ScoreOf(text, CATEGORY_MAPPINGS[c].keywords, 1)]

\* a second loop comparing with >=: the last of the equal scores wins
FindMaxLast(scores, c, maxScore, predictedCategory) ==
    LET best == CHOOSE m \in {scores[i] : i \in 1..Len(scores)} :
                    \A i \in 1..Len(scores) : m >= scores[i]
        at   == {i \in 1..Len(scores) : scores[i] = best}
        last_at == CHOOSE i \in at : \A j \in at : i >= j
    IN  [maxScore |-> best, predictedCategory |-> CATEGORY_MAPPINGS[last_at].category]

\* the second loop of classifyLocally: strict > keeps the first maximum,
\* and the default ACAD_OFFICE when every score is 0
RECURSIVE FindMax(_, _, _, _)
FindMax(scores, c, maxScore, predictedCategory) ==
    IF c > Len(scores) THEN [maxScore |-> maxScore, predictedCategory |-> predictedCategory]
    ELSE IF scores[c] > maxScore
         THEN FindMax(scores, c + 1, scores[c], CATEGORY_MAPPINGS[c].category)
         ELSE FindMax(scores, c + 1, maxScore, predictedCategory)

\* Number(Math.min(0.9, 0.65 + (maxScore / totalWords) * 0.25).toFixed(2)),
\* in hundredths.  toFixed rounds the double to the nearest hundredth; on
\* an exact decimal tie the double decides: for fewer than 50 words the
\* sum is below the tie only for maxScore/totalWords = 3/10 and 7/10.
confidenceOf(maxScore, totalWords) ==
    LET num    == 2 * (65 * totalWords + 25 * maxScore) + totalWords
        den    == 2 * totalWords
        tie    == num % den = 0
        below  == 10 * maxScore = 3 * totalWords \/ 10 * maxScore = 7 * totalWords
        r      == IF tie /\ below THEN (num \div den) - 1 ELSE num \div den
    IN  IF r > 90 THEN 90 ELSE r

\* classifyLocally without the default category of its second loop
classifyLocallyNoDefault(t, b) ==
    LET text == toLowerCase(t \o " " \o b)
        best == FindMax(scoresOf(text), 1, 0, "")
    IN  [predicted_category |-> best.predictedCategory,
         confidence |-> confidenceOf(best.maxScore, totalWordsOf(text))]

classifyLocally(t, b) ==
    LET text == toLowerCase(t \o " " \o b)
        best == FindMax(scoresOf(text), 1, 0, "ACAD_OFFICE")
    IN  [predicted_category |-> best.predictedCategory,
         confidence |-> confidenceOf(best.maxScore, totalWordsOf(text))]

(***************************************************************************)
(* The classifier service (the FastAPI program of the setup guide): the    *)
(* department code map and the rule router.                                *)
(***************************************************************************)
DEPT_CODE_MAP == <<
    <<"Admin", "REG_ADMIN">>,
    <<"Admissions", "REG_ADMIN">>,
    <<"Fees", "FEES">>,
    <<"Exam Cell", "EXAMS">>,
    <<"General Inquiry", "ACAD_OFFICE">>,
    <<"Hostel and Accomodation", "HOSTEL">>,
    <<"Placement Cell", "PLACEMENT">>,
    <<"Student Life & Events", "CULTURAL">>,
    <<"Library", "LIB">>,
    <<"Sanitation", "INFRA">>,
    <<"Food", "CANTEEN">>,
    <<"Artificial Intelligence", "AIDS">>,
    <<"Data Science", "AIDS">>,
    <<"CSBS", "CSE">>,
    <<"Computer Engineering", "CSE">>,
    <<"Computer Science & Business Systems", "CSE">>,
    <<"Information Technology", "IT_ENG">>,
    <<"Electronics & Telecommunication", "EXTC">>,
    <<"Lab Technicians (Tech Departments)", "LABS">>,
    <<"Mechanical", "MECH">>,
    <<"Mechanical Engineering", "MECH">>,
    <<"Mechatronics", "MECH">>,
    <<"Civil", "CIVIL">>,
    <<"Civil Engineering", "CIVIL">>,
    <<"Cyber Security", "CSE">>
>>

\* what a subscript d[key] raises when the key is absent
KeyError == "<KeyError>"

\* d[key] in place of d.get(key, default): an absent key raises KeyError
DictIndex(d, key, default) ==
    IF \E i \in 1..Len(d) : d[i][1] = key
    THEN d[CHOOSE i \in 1..Len(d) : d[i][1] = key][2]
    ELSE KeyError

\* dict.get(key, default), the dict held as the sequence of its items
DictGet(d, key, default) ==
    IF \E i \in 1..Len(d) : d[i][1] = key
    THEN d[CHOOSE i \in 1..Len(d) : d[i][1] = key][2]
    ELSE default

\* DEPT_CODE_MAP.get(label, "ACAD_OFFICE")
DeptCodeGet(label) == DictGet(DEPT_CODE_MAP, label, "ACAD_OFFICE")

\* Python's None
None == "<None>"

exam_keywords == <<"marksheet", "grade", "result", "re-evaluation", "recheck">>
final_keywords == <<"term end", "final exam", "semester end">>
mid_keywords == <<"mid-term", "internal exam", "mid sem">>
subject_map == <<
    <<"machine learning", "Data Science">>,
    <<"deep learning", "Artificial Intelligence">>,
    <<"operating systems", "Computer Engineering">>,
    <<"thermodynamics", "Mechanical Engineering">>,
    <<"fluid mechanics", "Civil Engineering">>,
    <<"communication systems", "Electronics & Telecommunication">>,
    <<"marketing", "CSBS">>
>>

\* any(k in q for k in keywords)
AnyIn(keywords, q) == \E k \in 1..Len(keywords) : includes(q, keywords[k])

\* a router that looks for the final and mid-term keywords without first
\* asking for an exam keyword
RouterWithoutExamCheck(query) ==
    LET q == toLowerCase(query)
        hits == {i \in 1..Len(subject_map) : includes(q, subject_map[i][1])}
    IN  IF AnyIn(final_keywords, q) THEN "Exam Cell"
        ELSE IF AnyIn(mid_keywords, q)
             THEN IF hits # {}
                  THEN subject_map[CHOOSE i \in hits : \A j \in hits : i <= j][2]
                  ELSE "General Inquiry"
             ELSE None

\* a router that asks for the mid-term keywords before the final ones
RouterMidBeforeFinal(query) ==
    LET q == toLowerCase(query)
        hits == {i \in 1..Len(subject_map) : includes(q, subject_map[i][1])}
    IN  IF AnyIn(exam_keywords, q)
        THEN IF AnyIn(mid_keywords, q)
             THEN IF hits # {}
                  THEN subject_map[CHOOSE i \in hits : \A j \in hits : i <= j][2]
                  ELSE "General Inquiry"
             ELSE IF AnyIn(final_keywords, q) THEN "Exam Cell"
                  ELSE None
        ELSE None

rule_based_exam_router(query) ==
    LET q == toLowerCase(query)
        hits == {i \in 1..Len(subject_map) : includes(q, subject_map[i][1])}
    IN  IF AnyIn(exam_keywords, q)
        THEN IF AnyIn(final_keywords, q) THEN "Exam Cell"
             ELSE IF AnyIn(mid_keywords, q)
                  THEN IF hits # {}
                       THEN subject_map[CHOOSE i \in hits : \A j \in hits : i <= j][2]
                       ELSE "General Inquiry"
                  ELSE None
        ELSE None

(***************************************************************************)
(* The inputs of the model.  The first NumTitles titles and the first      *)
(* NumBodies bodies of the pools are the strings a caller may pass.        *)
(***************************************************************************)
NumTitles == 5
NumBodies == 4

TitlePool == <<"", "Hello there", "Final exam marksheet fees refund",
               "Cannot login to LMS", "Mid sem machine learning exam query",
               "Final exam marksheet issue">>
BodyPool  == <<"", "please help me with this",
               "Getting error when accessing Blackboard portal",
               "doubt about syllabus", "fees payment refund still pending",
               "result not showing">>

Min(a, b) == IF a < b THEN a ELSE b
Titles == {TitlePool[i] : i \in 1..Min(NumTitles, Len(TitlePool))}
Bodies == {BodyPool[i] : i \in 1..Min(NumBodies, Len(BodyPool))}

\* classifyLocally on the inputs of the model, tabulated once
RECURSIVE TableOf(_)
TableOf(inputs) ==
    LET in == CHOOSE x \in inputs : TRUE
        row == in :> classifyLocally(in[1], in[2])
    IN  IF inputs = {in} THEN row ELSE row @@ TableOf(inputs \ {in})

LocalResults == TableOf(Titles \X Bodies)

(***************************************************************************)
(* The classifier service: the loaded model artifacts and                  *)
(* predict_department.  A classifier of the model answers predict with its *)
(* hit label when the processed text holds its keyword and with its miss   *)
(* label otherwise; an unfitted classifier raises on predict; its          *)
(* decision_function raises or gives scores whose minimum is minScore      *)
(* (hundredths).                                                           *)
(***************************************************************************)
\* what a call that raised leaves in place of its value
Raised == "<raised>"

Clf(keyword, hit, miss, fitted, decision, minScore) ==
    [keyword |-> keyword, hit |-> hit, miss |-> miss, fitted |-> fitted,
     decision |-> decision, minScore |-> minScore]

\* the artifacts joblib.load may have loaded at process start: broad_clf
\* (any label other than Admin_Services selects tech_clf), admin_clf and
\* tech_clf
Artifacts == {
    [broad_clf |-> Clf("lms", "Tech_Departments", "Admin_Services", TRUE, "ok", 0),
     admin_clf |-> Clf("fees", "Fees", "General Inquiry", TRUE, "ok", -25),
     tech_clf  |-> Clf("portal", "Information Technology", "Computer Engineering", TRUE, "ok", -60)],
    [broad_clf |-> Clf("lms", "Tech_Departments", "Admin_Services", TRUE, "ok", 0),
     admin_clf |-> Clf("fees", "Fees", "Library", TRUE, "raises", 0),
     tech_clf  |-> Clf("portal", "Information Technology", "Robotics", TRUE, "raises", 0)],
    [broad_clf |-> Clf("exam", "Admin_Services", "Tech_Departments", TRUE, "ok", 0),
     admin_clf |-> Clf("result", "Exam Cell", "Sports Committee", TRUE, "ok", 300),
     tech_clf  |-> Clf("lms", "Robotics", "Mechatronics", TRUE, "ok", 0)],
    [broad_clf |-> Clf("exam", "Admin_Services", "Tech_Departments", TRUE, "ok", 0),
     admin_clf |-> Clf("result", "Exam Cell", "Sports Committee", FALSE, "ok", 300),
     tech_clf  |-> Clf("lms", "Robotics", "Mechatronics", FALSE, "raises", 0)] }

\* preprocess_text: nlp(text.lower()); which tokens the pipeline keeps and
\* their lemmas belong to the loaded artifacts, whose classifiers decide on
\* the lower-case text
preprocess_text(text) == toLowerCase(text)

\* clf.predict([processed])[0]
predict(clf, processed) ==
    IF ~clf.fitted THEN Raised
    ELSE IF includes(processed, clf.keyword) THEN clf.hit ELSE clf.miss

Abs(x) == IF x < 0 THEN -x ELSE x
Max(a, b) == IF a > b THEN a ELSE b

\* the derivation without its upper limit: max(0.5, 1 / (1 + abs(...)))
DecisionConfidenceNoCap(minScore) ==
    LET den == 100 + Abs(minScore)
        q   == 10000 \div den
        rem == 10000 % den
        r   == IF 2 * rem > den THEN q + 1
               ELSE IF 2 * rem < den THEN q
               ELSE IF q % 2 = 0 THEN q ELSE q + 1
    IN  Max(50, r)

\* round(min(0.99, max(0.5, 1 / (1 + abs(scores.min())))), 2) in
\* hundredths, the minimum score given in hundredths; round goes to the
\* even neighbour on a tie
decisionConfidence(minScore) ==
    LET den == 100 + Abs(minScore)
        q   == 10000 \div den
        rem == 10000 % den
        r   == IF 2 * rem > den THEN q + 1
               ELSE IF 2 * rem < den THEN q
               ELSE IF q % 2 = 0 THEN q ELSE q + 1
        lo  == Max(50, r)
    IN  IF lo > 99 THEN 99 ELSE lo

\* an except clause that lets the exception of decision_function go on
ExceptReraise(clf, processed) ==
    [raised |-> TRUE, dept_pred |-> Raised, confidence |-> 0]

\* the except clause of predict_department: predict again, confidence 0.75
ExceptFallback(clf, processed) ==
    IF predict(clf, processed) = Raised
    THEN [raised |-> TRUE, dept_pred |-> Raised, confidence |-> 0]
    ELSE [raised |-> FALSE, dept_pred |-> predict(clf, processed), confidence |-> 75]

\* the try statement of predict_department on the sub-classifier the broad
\* prediction selects
SubClassify(clf, processed) ==
    IF predict(clf, processed) = Raised \/ clf.decision # "ok"
    THEN ExceptFallback(clf, processed)
    ELSE [raised |-> FALSE, dept_pred |-> predict(clf, processed),
          confidence |-> decisionConfidence(clf.minScore)]

\* scores.min()
ScoresMin(v) ==
    CHOOSE m \in {v[i] : i \in 1..Len(v)} : \A i \in 1..Len(v) : m <= v[i]

\* the decision scores a sub-classifier may give for a text, in
\* hundredths: one score (two classes) or one score per class, each the
\* cube of a whole number up to MaxScore in size
MaxScore == 6
ScoreValues == {k * k * k : k \in (-MaxScore)..MaxScore}
ScoreVectors == {<<a>> : a \in ScoreValues} \cup (ScoreValues \X ScoreValues)

\* the requests the service may receive: the first NumQueries of the pool
NumQueries == 6
RequestPool == <<
    <<"Cannot login to LMS", "Getting error when accessing Blackboard portal">>,
    <<"Final exam marksheet fees refund", "also mid sem deep learning">>,
    <<"Mid sem machine learning exam query", "doubt about syllabus">>,
    <<"Hello there", "result not showing">>,
    <<"Mid sem deep learning and machine learning", "result not showing">>,
    <<"Internal exam grade missing", "please help me with this">>,
    <<"RESULT of MID-TERM Deep Learning", "">> >>

\* the requests the service may be working on at once
NumRequests == 2

\* the students who may be submitting a ticket at once
NumStudents == 2

(***************************************************************************)
(* lib/ticketHelpers: generateTicketNumber.                                *)
(***************************************************************************)
\* String.prototype.padStart(n, ch)
RECURSIVE padStart(_, _, _)
padStart(str, n, ch) == IF Len(str) >= n THEN str ELSE padStart(ch \o str, n, ch)

\* String.prototype.slice(-n)
sliceLast(str, n) == IF Len(str) <= n THEN str ELSE SubSeq(str, Len(str) - n + 1, Len(str))

\* The clock.  An instant is given in milliseconds since 2026-11-05
\* 17:33:20 UTC, whose Date.now() is 1793900000000; the instants of the
\* model are the first NumInstants of the pool, all within one month.
NumInstants == 3
InstantPool == <<0, 1, 10000, 10001, 20000>>
Instants == {InstantPool[i] : i \in 1..Min(NumInstants, Len(InstantPool))}

\* Date.now().toString() at an instant
timestampString(instant) == "17939" \o padStart(ToString(instant), 8, "0")

\* dayjs().format('YYYYMM') at an instant
yearMonth(instant) == "202611"

\* Math.floor(Math.random() * 100): the values the model draws
NumRandoms == 2
Randoms == 0..(NumRandoms - 1)

\* generateTicketNumber at an instant, random being the value drawn
generateTicketNumber(instant, random) ==
    LET prefix == "NM-" \o yearMonth(instant) \o "-"
        millisPart == sliceLast(timestampString(instant), 4)
        randomPart == padStart(ToString(random), 2, "0")
    IN  prefix \o millisPart \o randomPart

(***************************************************************************)
(* lib/ml: the remote classifier and the gateway classifyTicket.           *)
(***************************************************************************)
\* the value a property read gives when the property is absent
Undefined == "<undefined>"

\* import.meta.env.VITE_ML_API_URL: absent, or the endpoint of the deployment
Endpoint == "https://classifier.example/predict"
EnvURLs == {"", Endpoint}

\* What the endpoint may answer.  A body is text that is no JSON, the JSON
\* value null, or a JSON object with the properties named in keys.
NotJson == [json |-> "unparseable", keys |-> {}, department |-> "",
            predicted_category |-> "", confidence |-> 0]
JsonNull == [json |-> "null", keys |-> {}, department |-> "",
             predicted_category |-> "", confidence |-> 0]
JsonObject(keys, department, predicted_category, confidence) ==
    [json |-> "object", keys |-> keys, department |-> department,
     predicted_category |-> predicted_category, confidence |-> confidence]

RemoteBodies == {
    NotJson,
    JsonNull,
    JsonObject({}, "", "", 0),
    JsonObject({"department", "confidence"}, "Library", "", 90),
    JsonObject({"department", "confidence"}, "Exam Cell", "", 95),
    JsonObject({"department", "confidence"}, "Hostel and Accomodation", "", 0),
    JsonObject({"department"}, "FEES", "", 0),
    JsonObject({"predicted_category", "confidence"}, "", "IT_SUPPORT", 87) }

Statuses == {200, 404, 500}
Responses == {[status |-> st, body |-> b] : st \in Statuses, b \in RemoteBodies}

NoResponse == [status |-> 0, body |-> NotJson]

\* result.department, result.confidence
Get(obj, key) ==
    IF key \in obj.keys
    THEN (CASE key = "department" -> obj.department
            [] key = "predicted_category" -> obj.predicted_category
            [] OTHER -> obj.confidence)
    ELSE Undefined

\* response.ok without its upper limit: every status from 200 on counts as ok
ResponseOkAnyStatus(status) == status >= 200

\* response.ok
ResponseOk(status) == status \in 200..299

\* result.confidence || 0.85: an absent confidence and 0 are falsy
ConfidenceOr(obj) ==
    IF "confidence" \in obj.keys /\ obj.confidence # 0 THEN obj.confidence ELSE 85

\* classifyWithAPI from the resolved fetch on: it throws on a status that is
\* not ok, when response.json() rejects and when result is null (reading a
\* property of null), and returns the department of the body otherwise
classifyWithAPI(response) ==
    IF ~ResponseOk(response.status)
    THEN [threw |-> TRUE, value |-> [predicted_category |-> Undefined, confidence |-> 0]]
    ELSE IF response.body.json # "object"
    THEN [threw |-> TRUE, value |-> [predicted_category |-> Undefined, confidence |-> 0]]
    ELSE [threw |-> FALSE,
          value |-> [predicted_category |-> Get(response.body, "department"),
                     confidence |-> ConfidenceOr(response.body)]]

\* the request classifyWithAPI sends: the title alone is the query
RequestBody(t, b) == [query |-> t]

\* classifyTicket's return on the local path
LocalReturn(t, b) ==
    <<[source |-> "local", value |-> LocalResults[<<t, b>>]]>>

\* a catch block that logs the warning and returns nothing
CatchWithoutReturn(t, b) == <<>>

\* classifyTicket's catch block: the returns of the call after the remote
\* call threw
CatchFallback(t, b) == LocalReturn(t, b)

\* classifyTicket's try block once classifyWithAPI has settled
TryReturn(t, b, response) ==
    LET r == classifyWithAPI(response)
    IN  IF r.threw THEN CatchFallback(t, b)
        ELSE <<[source |-> "remote", value |-> r.value]>>

NoParams == [title |-> "", body |-> ""]
NoLast == [set |-> FALSE, title |-> "", body |-> "", source |-> "",
           value |-> [predicted_category |-> "", confidence |-> 0]]
NoPrediction == [set |-> FALSE, departmentId |-> 0, departmentName |-> "", confidence |-> 0]

VARIABLES
    ML_API_URL,   \* the configured endpoint, "" when none is configured
    pc,           \* classifyTicket: "idle", "awaitFetch", "gotResponse", "done"
    params,       \* the title and body of the call in progress
    caller,       \* who awaits the call: "direct" or "form"
    requests,     \* the HTTP requests the call has issued
    net,          \* the fetch: "none", "pending", "rejected" or "resolved", and the response
    returns,      \* the results the call has returned
    last,         \* the preceding completed call, kept while the input repeats
    title, body,  \* CreateTicket: the form fields
    classifying,  \* CreateTicket: the classifying flag
    prediction,   \* CreateTicket: the prediction state
    toast,        \* CreateTicket: the latest toast
    hc,           \* handleClassify: "idle", "running", "ended"
    classified,   \* handleClassify: the call of classifyTicket behind the prediction, and its result
    page,         \* the route the browser is on, "/tickets/new" as the model starts
    tickets,      \* the rows of the tickets table
    status_history, \* the rows of the status_history table
    view,         \* TicketStatusUpdate as an admin has it open
    deptCodeMap,  \* the service: the module-level DEPT_CODE_MAP
    models,       \* the service: the loaded artifacts
    reqs,         \* the service: the requests being handled, one per worker thread
    scoring,      \* the service: the decision scores at hand and the confidence derived
    prior,        \* the service: the minimum score and confidence of the derivation before
    now,          \* the clock: milliseconds since ClockBase
    submits,      \* handleSubmit as each of the students is running it
    ticket_nos,   \* the ticket_no column of the students' rows, under its UNIQUE constraint
    auth,         \* useAuth(): loading, user and profile
    screen        \* what the route element renders

gatewayVars == <<ML_API_URL, pc, params, caller, requests, net, returns, last>>
formVars == <<title, body, classifying, prediction, toast, hc>>
ticketVars == <<classified, page, tickets, status_history, view>>
serviceVars == <<deptCodeMap, models, reqs>>
scoreVars == <<scoring, prior>>
numberVars == <<now, submits, ticket_nos>>
routeVars == <<auth, screen>>
vars == <<ML_API_URL, pc, params, caller, requests, net, returns, last,
          title, body, classifying, prediction, toast, hc,
          classified, page, tickets, status_history, view,
          deptCodeMap, models, reqs, scoring, prior, now, submits,
          ticket_nos, auth, screen>>

NoResult == [set |-> FALSE, title |-> "", body |-> "", predicted_category |-> "",
             confidence |-> 0]
NoView == [ticket |-> 0, currentStatus |-> "", newStatus |-> "", toast |-> "none"]
\* the service process not started: nothing loaded
NoArtifacts == [broad_clf |-> Clf("", "", "", FALSE, "raises", 0),
                admin_clf |-> Clf("", "", "", FALSE, "raises", 0),
                tech_clf  |-> Clf("", "", "", FALSE, "raises", 0)]
IdleRequest == [pc |-> "idle", title |-> "", body |-> "", full_query |-> "",
                dept |-> "", dept_pred |-> "", confidence |-> 0, code |-> "",
                response |-> [status |-> 0, predicted_category |-> "", confidence |-> 0]]

NoScoring == [set |-> FALSE, scores |-> <<>>, min |-> 0, confidence |-> 0]
NoPrior == [set |-> FALSE, min |-> 0, confidence |-> 0]
IdleSubmit == [pc |-> "ready", ticket_no |-> "", toast |-> "none"]

\* no decision scores at hand
ScoreIdle ==
    /\ scoring = NoScoring
    /\ prior = NoPrior

\* the clock at its base, no student submitting
NumberIdle ==
    /\ now = 0
    /\ submits = [s \in 1..NumStudents |-> IdleSubmit]
    /\ ticket_nos = {}

\* what a route element renders; to is where a Navigate element leads
Element(element, to) == [element |-> element, to |-> to]

\* a student is signed in and the route element shows its page
StudentSignedIn ==
    /\ auth = [loading |-> FALSE, user |-> TRUE, profile |-> "student"]
    /\ screen = Element("children", "")

\* the web application as it starts
FrontInit ==
    /\ pc = "idle"
    /\ params = NoParams
    /\ caller = "direct"
    /\ requests = <<>>
    /\ net = [state |-> "none", response |-> NoResponse]
    /\ returns = <<>>
    /\ last = NoLast
    /\ title = ""
    /\ body = ""
    /\ classifying = FALSE
    /\ prediction = NoPrediction
    /\ toast = "none"
    /\ hc = "idle"
    /\ classified = NoResult
    /\ page = "/tickets/new"
    /\ tickets = <<>>
    /\ status_history = <<>>
    /\ view = NoView

\* the web application on its own: the service process is not started
Init ==
    /\ ML_API_URL \in EnvURLs
    /\ FrontInit
    /\ deptCodeMap = DEPT_CODE_MAP
    /\ models = NoArtifacts
    /\ reqs = [r \in 1..NumRequests |-> IdleRequest]
    /\ ScoreIdle
    /\ NumberIdle
    /\ StudentSignedIn

\* the service process started: the module-level code has run, the
\* artifacts are loaded; the web application takes no part
ServiceInit ==
    /\ ML_API_URL = ""
    /\ FrontInit
    /\ deptCodeMap = DEPT_CODE_MAP
    /\ models \in Artifacts
    /\ reqs = [r \in 1..NumRequests |-> IdleRequest]
    /\ ScoreIdle
    /\ NumberIdle
    /\ StudentSignedIn

\* classifyTicket up to its first await: with an endpoint configured the
\* request is sent, otherwise the local result is returned at once
Begin(t, b, who) ==
    /\ pc = "idle"
    /\ params' = [title |-> t, body |-> b]
    /\ caller' = who
    /\ last' = IF last.set /\ last.title = t /\ last.body = b THEN last ELSE NoLast
    /\ IF ML_API_URL # ""
       THEN /\ pc' = "awaitFetch"
            /\ requests' = Append(requests, RequestBody(t, b))
            /\ net' = [state |-> "pending", response |-> NoResponse]
            /\ returns' = <<>>
       ELSE /\ pc' = "done"
            /\ requests' = requests
            /\ net' = net
            /\ returns' = LocalReturn(t, b)
    /\ UNCHANGED ML_API_URL

\* a caller other than the form calls classifyTicket({title: t, body: b})
ClassifyTicket(t, b) ==
    /\ Begin(t, b, "direct")
    /\ UNCHANGED formVars
    /\ UNCHANGED <<ticketVars, serviceVars>>
    /\ UNCHANGED <<scoreVars, numberVars, routeVars>>

\* a rejected fetch answered by sending the request again
FetchRejectsAndRetries ==
    /\ pc = "awaitFetch"
    /\ requests' = Append(requests, RequestBody(params.title, params.body))
    /\ net' = [state |-> "pending", response |-> NoResponse]
    /\ UNCHANGED <<ML_API_URL, pc, params, caller, returns, last>>
    /\ UNCHANGED <<title, body, classifying, prediction, toast, hc>>
    /\ UNCHANGED <<ticketVars, serviceVars>>
    /\ UNCHANGED <<scoreVars, numberVars, routeVars>>

\* the fetch rejects (no network, DNS, CORS): classifyWithAPI throws and
\* the catch block of classifyTicket runs
FetchRejects ==
    /\ pc = "awaitFetch"
    /\ net' = [state |-> "rejected", response |-> NoResponse]
    /\ returns' = returns \o CatchFallback(params.title, params.body)
    /\ pc' = "done"
    /\ UNCHANGED <<ML_API_URL, params, caller, requests, last>>
    /\ UNCHANGED formVars
    /\ UNCHANGED <<ticketVars, serviceVars>>
    /\ UNCHANGED <<scoreVars, numberVars, routeVars>>

\* the endpoint answers
FetchResolves(response) ==
    /\ pc = "awaitFetch"
    /\ net' = [state |-> "resolved", response |-> response]
    /\ pc' = "gotResponse"
    /\ UNCHANGED <<ML_API_URL, params, caller, requests, returns, last>>
    /\ UNCHANGED formVars
    /\ UNCHANGED <<ticketVars, serviceVars>>
    /\ UNCHANGED <<scoreVars, numberVars, routeVars>>

\* the rest of classifyWithAPI and of classifyTicket's try/catch
ClassifyWithAPISettles ==
    /\ pc = "gotResponse"
    /\ returns' = returns \o TryReturn(params.title, params.body, net.response)
    /\ pc' = "done"
    /\ UNCHANGED <<ML_API_URL, params, caller, requests, net, last>>
    /\ UNCHANGED formVars
    /\ UNCHANGED <<ticketVars, serviceVars>>
    /\ UNCHANGED <<scoreVars, numberVars, routeVars>>

\* the direct caller receives the result
DirectReturn ==
    /\ pc = "done"
    /\ caller = "direct"
    /\ last' = IF Len(returns) > 0
               THEN [set |-> TRUE, title |-> params.title, body |-> params.body,
                     source |-> returns[1].source, value |-> returns[1].value]
               ELSE NoLast
    /\ pc' = "idle"
    /\ params' = NoParams
    /\ requests' = <<>>
    /\ net' = [state |-> "none", response |-> NoResponse]
    /\ returns' = <<>>
    /\ UNCHANGED <<ML_API_URL, caller>>
    /\ UNCHANGED formVars
    /\ UNCHANGED <<ticketVars, serviceVars>>
    /\ UNCHANGED <<scoreVars, numberVars, routeVars>>

(***************************************************************************)
(* pages/student/CreateTicket: the form and handleClassify.                *)
(***************************************************************************)
\* the departments table as the seed migration fills it
Departments == <<
    [id |-> 1, name |-> "Academics / Program Office", code |-> "ACAD_OFFICE"],
    [id |-> 2, name |-> "Examination Cell", code |-> "EXAMS"],
    [id |-> 3, name |-> "Accounts / Fees Department", code |-> "FEES"],
    [id |-> 4, name |-> "IT Support / LMS", code |-> "IT_SUPPORT"],
    [id |-> 5, name |-> "Library", code |-> "LIB"],
    [id |-> 6, name |-> "Hostel Office", code |-> "HOSTEL"],
    [id |-> 7, name |-> "Infrastructure & Maintenance", code |-> "INFRA"],
    [id |-> 8, name |-> "Placement Cell", code |-> "PLACEMENT"]
>>

\* ticketSchema.safeParse({ title, body }).success
ticketSchema(t, b) ==
    /\ Len(t) >= 5 /\ Len(t) <= 200
    /\ Len(b) >= 20 /\ Len(b) <= 2000

\* the callback of departments.find in handleClassify
DeptMatches(d, category) ==
    \/ includes(toLowerCase(d.name), toLowerCase(category))
    \/ includes(toLowerCase(category), toLowerCase(d.name))

\* handleClassify from the result of classifyTicket on: the toast it shows
\* and the prediction it sets.  departments is the fetched data (<<>> with
\* fetched FALSE stands for null); reading toLowerCase of an undefined
\* category throws inside find.
ClassifyOutcome(result, fetched, departments) ==
    LET hits == {i \in 1..Len(departments) :
                    DeptMatches(departments[i], result.predicted_category)}
        dept == departments[CHOOSE i \in hits : \A j \in hits : i <= j]
    IN  IF ~fetched
        THEN [toast |-> "Failed to fetch departments", prediction |-> NoPrediction]
        ELSE IF result.predicted_category = Undefined /\ Len(departments) > 0
        THEN [toast |-> "Cannot read properties of undefined", prediction |-> NoPrediction]
        ELSE IF hits = {}
        THEN [toast |-> "Could not match to a department. Please try again.",
              prediction |-> NoPrediction]
        ELSE [toast |-> "Will route to",
              prediction |-> [set |-> TRUE, departmentId |-> dept.id,
                              departmentName |-> dept.name,
                              confidence |-> result.confidence]]

\* the user edits the title field
SetTitle(t) ==
    /\ page = "/tickets/new"
    /\ title' = t
    /\ UNCHANGED <<body, classifying, prediction, toast, hc>>
    /\ UNCHANGED gatewayVars
    /\ UNCHANGED <<ticketVars, serviceVars>>
    /\ UNCHANGED <<scoreVars, numberVars, routeVars>>

\* the user edits the description field
SetBody(b) ==
    /\ page = "/tickets/new"
    /\ body' = b
    /\ UNCHANGED <<title, classifying, prediction, toast, hc>>
    /\ UNCHANGED gatewayVars
    /\ UNCHANGED <<ticketVars, serviceVars>>
    /\ UNCHANGED <<scoreVars, numberVars, routeVars>>

\* the Classify button (shown while there is no prediction, enabled while
\* not classifying and both fields are filled): handleClassify up to the
\* await of classifyTicket
HandleClassify ==
    /\ page = "/tickets/new"
    /\ ~prediction.set
    /\ ~classifying
    /\ title # ""
    /\ body # ""
    /\ IF ticketSchema(title, body)
       THEN /\ classifying' = TRUE
            /\ hc' = "running"
            /\ Begin(title, body, "form")
            /\ UNCHANGED <<title, body, prediction, toast>>
       ELSE /\ toast' = "validation"
            /\ UNCHANGED <<title, body, classifying, prediction, hc>>
            /\ UNCHANGED gatewayVars
    /\ UNCHANGED <<ticketVars, serviceVars>>
    /\ UNCHANGED <<scoreVars, numberVars, routeVars>>

\* handleClassify from the result of classifyTicket to its end: the
\* departments query, the lookup, setPrediction or the catch block, and
\* the finally block
HandleClassifyResumes(fetched) ==
    /\ pc = "done"
    /\ caller = "form"
    /\ LET out == IF Len(returns) = 0
                  THEN [toast |-> "Classification failed. Please try again.",
                        prediction |-> NoPrediction]
                  ELSE ClassifyOutcome(returns[1].value, fetched,
                                       IF fetched THEN Departments ELSE <<>>)
       IN  /\ prediction' = out.prediction
           /\ toast' = out.toast
           /\ classified' = IF out.prediction.set
                            THEN [set |-> TRUE,
                                  title |-> params.title, body |-> params.body,
                                  predicted_category |-> returns[1].value.predicted_category,
                                  confidence |-> returns[1].value.confidence]
                            ELSE NoResult
    /\ classifying' = FALSE
    /\ hc' = "ended"
    /\ pc' = "idle"
    /\ params' = NoParams
    /\ requests' = <<>>
    /\ net' = [state |-> "none", response |-> NoResponse]
    /\ returns' = <<>>
    /\ UNCHANGED <<ML_API_URL, caller, last, title, body>>
    /\ UNCHANGED <<page, tickets, status_history, view>>
    /\ UNCHANGED serviceVars
    /\ UNCHANGED <<scoreVars, numberVars, routeVars>>

\* the Re-classify button (shown while there is a prediction)
Reclassify ==
    /\ prediction.set
    /\ prediction' = NoPrediction
    /\ classified' = NoResult
    /\ hc' = "idle"
    /\ UNCHANGED <<title, body, classifying, toast>>
    /\ UNCHANGED gatewayVars
    /\ UNCHANGED <<page, tickets, status_history, view>>
    /\ UNCHANGED serviceVars
    /\ UNCHANGED <<scoreVars, numberVars, routeVars>>

(***************************************************************************)
(* pages/student/CreateTicket: handleSubmit; components/TicketStatusUpdate. *)
(***************************************************************************)
\* the rows status_history may hold at most
MaxHistory == 3

\* SQL NULL
Null == "<null>"

\* the Submit Ticket button (shown while there is a prediction):
\* handleSubmit.  ticketError is the outcome of the insert into tickets,
\* deptAdmin whether the department has an admin to assign the ticket to,
\* historyError the outcome of the insert into status_history, which the
\* handler does not look at.  The number generateTicketNumber gives the
\* row is left to the students' submits below; here a number the UNIQUE
\* constraint rejects is one of the causes of ticketError.  navigate
\* leaves the page, whose state goes with it.
HandleSubmit(ticketError, deptAdmin, historyError) ==
    /\ page = "/tickets/new"
    /\ prediction.set
    /\ auth.user
    /\ IF ticketError
       THEN /\ toast' = "Failed to create ticket"
            /\ UNCHANGED <<title, body, classifying, prediction, hc>>
            /\ UNCHANGED <<classified, page, tickets, status_history>>
       ELSE /\ tickets' = Append(tickets,
                    [id |-> Len(tickets) + 1, title |-> title, body |-> body,
                     department_id |-> prediction.departmentId,
                     predicted_category |-> prediction.departmentName,
                     predicted_confidence |-> prediction.confidence,
                     status |-> "OPEN", assigned |-> deptAdmin])
            /\ status_history' =
                    IF historyError THEN status_history
                    ELSE Append(status_history,
                            [ticket_id |-> Len(tickets) + 1, from_status |-> Null,
                             to_status |-> "OPEN"])
            /\ toast' = "created and routed"
            /\ page' = "/tickets/:id"
            /\ title' = ""
            /\ body' = ""
            /\ prediction' = NoPrediction
            /\ hc' = "idle"
            /\ classified' = NoResult
            /\ UNCHANGED classifying
    /\ UNCHANGED view
    /\ UNCHANGED gatewayVars
    /\ UNCHANGED serviceVars
    /\ UNCHANGED <<scoreVars, numberVars, routeVars>>

statusOptions == <<"OPEN", "UNDER_REVIEW", "CLOSED">>

\* an admin opens the page of ticket i: TicketStatusUpdate mounts with
\* newStatus = currentStatus = the status of the ticket
OpenTicketDetail(i) ==
    /\ i \in 1..Len(tickets)
    /\ view' = [ticket |-> i, currentStatus |-> tickets[i].status,
                newStatus |-> tickets[i].status, toast |-> "none"]
    /\ UNCHANGED <<classified, page, tickets, status_history>>
    /\ UNCHANGED <<gatewayVars, formVars, serviceVars>>
    /\ UNCHANGED <<scoreVars, numberVars, routeVars>>

\* the admin picks a status in the select
SetNewStatus(status) ==
    /\ view.ticket # 0
    /\ view' = [view EXCEPT !.newStatus = status]
    /\ UNCHANGED <<classified, page, tickets, status_history>>
    /\ UNCHANGED <<gatewayVars, formVars, serviceVars>>
    /\ UNCHANGED <<scoreVars, numberVars, routeVars>>

\* the Update Status button (disabled while newStatus = currentStatus):
\* handleStatusUpdate.  ticketError and historyError are the outcomes of
\* the update of tickets and of the insert into status_history; after
\* both succeeded onStatusUpdated fetches the ticket again.
HandleStatusUpdate(ticketError, historyError) ==
    /\ view.ticket # 0
    /\ view.newStatus # view.currentStatus
    /\ Len(status_history) < MaxHistory
    /\ IF ticketError
       THEN /\ view' = [view EXCEPT !.toast = "Failed to update ticket status"]
            /\ UNCHANGED <<tickets, status_history>>
       ELSE /\ tickets' = [tickets EXCEPT ![view.ticket].status = view.newStatus]
            /\ IF historyError
               THEN /\ view' = [view EXCEPT !.toast = "Failed to update ticket status"]
                    /\ UNCHANGED status_history
               ELSE /\ status_history' = Append(status_history,
                            [ticket_id |-> view.ticket,
                             from_status |-> view.currentStatus,
                             to_status |-> view.newStatus])
                    /\ view' = [view EXCEPT !.toast = "Status Updated",
                                            !.currentStatus = view.newStatus]
    /\ UNCHANGED <<classified, page>>
    /\ UNCHANGED <<gatewayVars, formVars, serviceVars>>
    /\ UNCHANGED <<scoreVars, numberVars, routeVars>>

(***************************************************************************)
(* The classifier service: POST /classify, one request per worker thread.  *)
(* A request is handled in the steps at which it reads what the threads    *)
(* share: the rule branch, the models, the code map; each step runs on to  *)
(* the next such read or to the response.                                  *)
(***************************************************************************)
Queries == {RequestPool[i] : i \in 1..Min(NumQueries, Len(RequestPool))}

frontVars == <<gatewayVars, formVars, ticketVars>>

\* classify up to the call of predict_department
Classify(r, t, b) ==
    /\ reqs[r].pc = "idle"
    /\ reqs' = [reqs EXCEPT ![r] = [IdleRequest EXCEPT !.pc = "route", !.title = t,
                                       !.body = b, !.full_query = t \o ". " \o b]]
    /\ UNCHANGED <<deptCodeMap, models>>
    /\ UNCHANGED frontVars
    /\ UNCHANGED <<scoreVars, numberVars, routeVars>>

\* classify's except clause: HTTPException(status_code=500)
Raise(req) ==
    [req EXCEPT !.pc = "responded",
                !.response = [status |-> 500, predicted_category |-> "",
                              confidence |-> 0]]

\* from a lookup in the code map on: the return of predict_department and
\* the ClassifyResponse of classify, or the exception the lookup raised
AfterLookup(req, code, confidence) ==
    IF code = KeyError THEN Raise(req)
    ELSE [req EXCEPT !.pc = "responded", !.code = code, !.confidence = confidence,
                     !.response = [status |-> 200, predicted_category |-> code,
                                   confidence |-> confidence]]

\* a rule branch that trusts the fall-back department of the router less
\* than its other matches
RuleRouteFallbackLower(r) ==
    /\ reqs[r].pc = "route"
    /\ LET dept == rule_based_exam_router(reqs[r].full_query)
       IN  reqs' = [reqs EXCEPT ![r] =
                IF dept # None
                THEN AfterLookup([reqs[r] EXCEPT !.dept = dept],
                                 DictGet(deptCodeMap, dept, "ACAD_OFFICE"),
                                 IF dept = "General Inquiry" THEN 75 ELSE 95)
                ELSE [reqs[r] EXCEPT !.pc = "ml", !.dept = None]]
    /\ UNCHANGED <<deptCodeMap, models>>
    /\ UNCHANGED frontVars
    /\ UNCHANGED <<scoreVars, numberVars, routeVars>>

\* predict_department: the rule router and, on a match, its code with
\* confidence 0.95
RuleRoute(r) ==
    /\ reqs[r].pc = "route"
    /\ LET dept == rule_based_exam_router(reqs[r].full_query)
       IN  reqs' = [reqs EXCEPT ![r] =
                IF dept # None
                THEN AfterLookup([reqs[r] EXCEPT !.dept = dept],
                                 DictGet(deptCodeMap, dept, "ACAD_OFFICE"), 95)
                ELSE [reqs[r] EXCEPT !.pc = "ml", !.dept = None]]
    /\ UNCHANGED <<deptCodeMap, models>>
    /\ UNCHANGED frontVars
    /\ UNCHANGED <<scoreVars, numberVars, routeVars>>

\* predict_department: preprocess_text, the broad prediction and the try
\* statement on the sub-classifier it selects
Predict(r) ==
    /\ reqs[r].pc = "ml"
    /\ LET processed == preprocess_text(reqs[r].full_query)
           broad_pred == predict(models.broad_clf, processed)
           clf == IF broad_pred = "Admin_Services" THEN models.admin_clf
                  ELSE models.tech_clf
           sub == SubClassify(clf, processed)
       IN  reqs' = [reqs EXCEPT ![r] =
                IF broad_pred = Raised \/ sub.raised
                THEN Raise(reqs[r])
                ELSE [reqs[r] EXCEPT !.pc = "resolve", !.dept_pred = sub.dept_pred,
                                     !.confidence = sub.confidence]]
    /\ UNCHANGED <<deptCodeMap, models>>
    /\ UNCHANGED frontVars
    /\ UNCHANGED <<scoreVars, numberVars, routeVars>>

\* the lookup written DEPT_CODE_MAP.setdefault(dept_pred, "ACAD_OFFICE"):
\* it stores the default under a label the map lacks
ResolveSetDefault(r) ==
    /\ reqs[r].pc = "resolve"
    /\ reqs' = [reqs EXCEPT ![r] = AfterLookup(reqs[r],
                    DictGet(deptCodeMap, reqs[r].dept_pred, "ACAD_OFFICE"),
                    reqs[r].confidence)]
    /\ deptCodeMap' =
            IF \E i \in 1..Len(deptCodeMap) : deptCodeMap[i][1] = reqs[r].dept_pred
            THEN deptCodeMap
            ELSE Append(deptCodeMap, <<reqs[r].dept_pred, "ACAD_OFFICE">>)
    /\ UNCHANGED models
    /\ UNCHANGED frontVars
    /\ UNCHANGED <<scoreVars, numberVars, routeVars>>

\* predict_department: DEPT_CODE_MAP.get(dept_pred, "ACAD_OFFICE"), the
\* return, and the response of classify
Resolve(r) ==
    /\ reqs[r].pc = "resolve"
    /\ reqs' = [reqs EXCEPT ![r] = AfterLookup(reqs[r],
                    DictGet(deptCodeMap, reqs[r].dept_pred, "ACAD_OFFICE"),
                    reqs[r].confidence)]
    /\ UNCHANGED <<deptCodeMap, models>>
    /\ UNCHANGED frontVars
    /\ UNCHANGED <<scoreVars, numberVars, routeVars>>

\* scores = clf.decision_function([processed])[0]: the sub-classifier
\* gives the scores v, the derivation before this one is kept for
\* comparison
DecisionFunction(v) ==
    /\ scoring.scores = <<>> \/ scoring.set
    /\ scoring' = [NoScoring EXCEPT !.scores = v]
    /\ prior' = IF scoring.set
                THEN [set |-> TRUE, min |-> scoring.min, confidence |-> scoring.confidence]
                ELSE prior
    /\ UNCHANGED <<frontVars, serviceVars, numberVars, routeVars>>

\* confidence = min(0.99, max(0.5, 1 / (1 + abs(scores.min())))), as the
\* response rounds it
DeriveConfidence ==
    /\ scoring.scores # <<>>
    /\ ~scoring.set
    /\ scoring' = [scoring EXCEPT !.set = TRUE,
                                  !.min = ScoresMin(scoring.scores),
                                  !.confidence = decisionConfidence(ScoresMin(scoring.scores))]
    /\ UNCHANGED prior
    /\ UNCHANGED <<frontVars, serviceVars, numberVars, routeVars>>

(***************************************************************************)
(* Students creating tickets at the same time, each in a browser of their  *)
(* own with a classified ticket on the form.                               *)
(***************************************************************************)
\* time passes: the clock reaches the next instant
Tick ==
    /\ \E i \in 1..(Min(NumInstants, Len(InstantPool)) - 1) :
            /\ now = InstantPool[i]
            /\ now' = InstantPool[i + 1]
    /\ UNCHANGED <<submits, ticket_nos>>
    /\ UNCHANGED <<frontVars, serviceVars, scoreVars, routeVars>>

\* student s presses Submit Ticket (disabled while the handler runs):
\* handleSubmit up to the insert it sends with the generated number
SubmitBegins(s, random) ==
    /\ submits[s].pc # "inserting"
    /\ submits' = [submits EXCEPT ![s] =
            [pc |-> "inserting", ticket_no |-> generateTicketNumber(now, random),
             toast |-> "none"]]
    /\ UNCHANGED <<now, ticket_nos>>
    /\ UNCHANGED <<frontVars, serviceVars, scoreVars, routeVars>>

\* the database has run the insert of student s: the UNIQUE constraint on
\* ticket_no rejects a number a row has already; handleSubmit goes on to
\* the toast of its catch block or to the toast of the created ticket
InsertSettles(s) ==
    /\ submits[s].pc = "inserting"
    /\ IF submits[s].ticket_no \in ticket_nos
       THEN /\ submits' = [submits EXCEPT ![s].pc = "failed",
                                          ![s].toast = "duplicate key value violates unique constraint"]
            /\ UNCHANGED ticket_nos
       ELSE /\ submits' = [submits EXCEPT ![s].pc = "created",
                                          ![s].toast = "created and routed"]
            /\ ticket_nos' = ticket_nos \cup {submits[s].ticket_no}
    /\ UNCHANGED now
    /\ UNCHANGED <<frontVars, serviceVars, scoreVars, routeVars>>

\* the client has the response; the worker is free again
Complete(r) ==
    /\ reqs[r].pc = "responded"
    /\ reqs' = [reqs EXCEPT ![r] = IdleRequest]
    /\ UNCHANGED <<deptCodeMap, models>>
    /\ UNCHANGED frontVars
    /\ UNCHANGED <<scoreVars, numberVars, routeVars>>

Next ==
    \/ \E t \in Titles, b \in Bodies : ClassifyTicket(t, b)
    \/ FetchRejects
    \/ \E response \in Responses : FetchResolves(response)
    \/ ClassifyWithAPISettles
    \/ DirectReturn

Spec == Init /\ [][Next]_vars

\* the ticket-creation page: the user's actions, and the gateway's steps
\* for the call handleClassify awaits
FormNext ==
    \/ \E t \in Titles : SetTitle(t)
    \/ \E b \in Bodies : SetBody(b)
    \/ HandleClassify
    \/ FetchRejects
    \/ \E response \in Responses : FetchResolves(response)
    \/ ClassifyWithAPISettles
    \/ \E fetched \in BOOLEAN : HandleClassifyResumes(fetched)
    \/ Reclassify

FormSpec == Init /\ [][FormNext]_vars

\* the ticket-creation page with its Submit button, and the status update
\* of the created ticket by an admin
TicketNext ==
    \/ \E t \in Titles : SetTitle(t)
    \/ \E b \in Bodies : SetBody(b)
    \/ HandleClassify
    \/ FetchRejects
    \/ \E response \in Responses : FetchResolves(response)
    \/ ClassifyWithAPISettles
    \/ \E fetched \in BOOLEAN : HandleClassifyResumes(fetched)
    \/ Reclassify
    \/ \E ticketError \in BOOLEAN, deptAdmin \in BOOLEAN, historyError \in BOOLEAN :
            HandleSubmit(ticketError, deptAdmin, historyError)
    \/ \E i \in 1..Len(tickets) : OpenTicketDetail(i)
    \/ \E i \in 1..Len(statusOptions) : SetNewStatus(statusOptions[i])
    \/ \E ticketError \in BOOLEAN, historyError \in BOOLEAN :
            HandleStatusUpdate(ticketError, historyError)

TicketSpec == Init /\ [][TicketNext]_vars

\* the worker threads of the service, each handling one request at a time
ServiceNext ==
    \E r \in 1..NumRequests :
        \/ \E q \in Queries : Classify(r, q[1], q[2])
        \/ RuleRoute(r)
        \/ Predict(r)
        \/ Resolve(r)
        \/ Complete(r)

ServiceSpec == ServiceInit /\ [][ServiceNext]_vars

\* the confidence derivation of the service on the scores its
\* sub-classifiers may give
ScoreNext ==
    \/ \E v \in ScoreVectors : DecisionFunction(v)
    \/ DeriveConfidence

\* the service started with artifacts whose sub-classifiers give scores
ScoreInit ==
    /\ ServiceInit
    /\ \A clf \in {models.admin_clf, models.tech_clf} : clf.fitted /\ clf.decision = "ok"

ScoreSpec == ScoreInit /\ [][ScoreNext]_vars

\* the students submitting their tickets as time passes
NumberNext ==
    \/ Tick
    \/ \E s \in 1..NumStudents, random \in Randoms : SubmitBegins(s, random)
    \/ \E s \in 1..NumStudents : InsertSettles(s)

NumberSpec == Init /\ [][NumberNext]_vars

(***************************************************************************)
(* The routes of App, ProtectedRoute and the Index page.  The auth state   *)
(* is what useAuth hands the components: loading, whether a user is signed *)
(* in, and the role of the profile (Null when there is no profile).        *)
(***************************************************************************)
UserRoles == {"student", "teacher", "dept_admin", "main_admin"}

hasRole(profile, roles) == profile # Null /\ profile \in roles
isStudent(profile) == hasRole(profile, {"student"})
isTeacher(profile) == hasRole(profile, {"teacher"})
isDeptAdmin(profile) == hasRole(profile, {"dept_admin"})
isMainAdmin(profile) == hasRole(profile, {"main_admin"})

\* the optional allowedRoles prop of ProtectedRoute
AllowedRoles(roles) == [given |-> TRUE, roles |-> roles]
NoAllowedRoles == [given |-> FALSE, roles |-> {}]

PublicRoute(element) ==
    [element |-> element, protected |-> FALSE, allowedRoles |-> NoAllowedRoles]
GuardedRoute(element, roles) ==
    [element |-> element, protected |-> TRUE, allowedRoles |-> AllowedRoles(roles)]

\* the route table of App; "*" stands for a path no other route matches
Routes ==
    ("/" :> PublicRoute("Index")) @@
    ("/welcome" :> PublicRoute("WelcomePage")) @@
    ("/auth/student/sign-in" :> PublicRoute("StudentSignIn")) @@
    ("/auth/student/sign-up" :> PublicRoute("StudentSignUp")) @@
    ("/auth/teacher/sign-in" :> PublicRoute("TeacherSignIn")) @@
    ("/auth/teacher/sign-up" :> PublicRoute("TeacherSignUp")) @@
    ("/auth/admin/sign-in" :> PublicRoute("AdminSignIn")) @@
    ("/dashboard/student" :> GuardedRoute("StudentDashboard", {"student", "teacher"})) @@
    ("/tickets/new" :> GuardedRoute("CreateTicket", {"student", "teacher"})) @@
    ("/tickets/:id" :> GuardedRoute("TicketDetail", UserRoles)) @@
    ("/dept/inbox" :> GuardedRoute("DeptInbox", {"dept_admin"})) @@
    ("/admin/overview" :> GuardedRoute("AdminOverview", {"main_admin"})) @@
    ("/admin/tickets" :> GuardedRoute("AllTickets", {"main_admin"})) @@
    ("/admin/departments" :> GuardedRoute("Departments", {"main_admin"})) @@
    ("/admin/users" :> GuardedRoute("Users", {"main_admin"})) @@
    ("/admin/settings" :> GuardedRoute("Settings", {"main_admin"})) @@
    ("*" :> PublicRoute("NotFound"))

Paths == DOMAIN Routes

\* the default of the redirectTo prop
DefaultRedirectTo == "/auth/student/sign-in"

\* ProtectedRoute: what it renders for an auth state
ProtectedRouteNoRoleCheck(state, allowedRoles, redirectTo) ==
    IF state.loading THEN Element("Loading...", "")
    ELSE IF ~state.user \/ state.profile = Null THEN Element("Navigate", redirectTo)
    ELSE Element("children", "")

ProtectedRoute(state, allowedRoles, redirectTo) ==
    IF state.loading THEN Element("Loading...", "")
    ELSE IF ~state.user \/ state.profile = Null THEN Element("Navigate", redirectTo)
    ELSE IF allowedRoles.given /\ state.profile \notin allowedRoles.roles
         THEN Element("Navigate", "/")
    ELSE Element("children", "")

\* Index: what it renders for an auth state
Index(state) ==
    IF state.loading THEN Element("Loading...", "")
    ELSE IF ~state.user THEN Element("WelcomePage", "")
    ELSE Element("Redirecting...", "")

\* Index: where its effect navigates, "" when it does not navigate
IndexTarget(state) ==
    IF ~state.loading /\ state.profile # Null
    THEN IF isStudent(state.profile) \/ isTeacher(state.profile) THEN "/dashboard/student"
         ELSE IF isDeptAdmin(state.profile) THEN "/dept/inbox"
         ELSE IF isMainAdmin(state.profile) THEN "/admin/overview"
         ELSE ""
    ELSE ""

\* what the router renders on a path for an auth state
Render(path, state) ==
    LET route == Routes[path]
    IN  IF route.element = "Index" THEN Index(state)
        ELSE IF route.protected
             THEN ProtectedRoute(state, route.allowedRoles, DefaultRedirectTo)
        ELSE Element(route.element, "")

\* the auth states useAuth may hand out: a profile belongs to a user
AuthStates ==
    {state \in [loading : BOOLEAN, user : BOOLEAN, profile : UserRoles \cup {Null}] :
        state.profile # Null => state.user}

\* the application as the browser opens it: the session is being looked up
RouteInit ==
    /\ ML_API_URL = ""
    /\ pc = "idle"
    /\ params = NoParams
    /\ caller = "direct"
    /\ requests = <<>>
    /\ net = [state |-> "none", response |-> NoResponse]
    /\ returns = <<>>
    /\ last = NoLast
    /\ title = ""
    /\ body = ""
    /\ classifying = FALSE
    /\ prediction = NoPrediction
    /\ toast = "none"
    /\ hc = "idle"
    /\ classified = NoResult
    /\ page = "/"
    /\ tickets = <<>>
    /\ status_history = <<>>
    /\ view = NoView
    /\ deptCodeMap = DEPT_CODE_MAP
    /\ models = NoArtifacts
    /\ reqs = [r \in 1..NumRequests |-> IdleRequest]
    /\ ScoreIdle
    /\ NumberIdle
    /\ auth = [loading |-> TRUE, user |-> FALSE, profile |-> Null]
    /\ screen = Index(auth)

\* the session lookup of the auth provider ends: nobody is signed in, or a
\* user is, with the profile getUserProfile gave (Null on error); the
\* components render again
AuthSettles(state) ==
    /\ auth.loading
    /\ ~state.loading
    /\ auth' = state
    /\ screen' = Render(page, state)
    /\ UNCHANGED <<gatewayVars, formVars, classified, page, tickets, status_history, view>>
    /\ UNCHANGED <<serviceVars, scoreVars, numberVars>>

\* a user signs in: the provider hands out the user and the profile
\* getUserProfile gave
SignIn(profile) ==
    /\ ~auth.loading
    /\ ~auth.user
    /\ auth' = [loading |-> FALSE, user |-> TRUE, profile |-> profile]
    /\ screen' = Render(page, auth')
    /\ UNCHANGED <<gatewayVars, formVars, classified, page, tickets, status_history, view>>
    /\ UNCHANGED <<serviceVars, scoreVars, numberVars>>

\* the user signs out
SignOut ==
    /\ ~auth.loading
    /\ auth.user
    /\ auth' = [loading |-> FALSE, user |-> FALSE, profile |-> Null]
    /\ screen' = Render(page, auth')
    /\ UNCHANGED <<gatewayVars, formVars, classified, page, tickets, status_history, view>>
    /\ UNCHANGED <<serviceVars, scoreVars, numberVars>>

\* the user opens a path: the address bar or a link
Visit(path) ==
    /\ path # page
    /\ page' = path
    /\ screen' = Render(path, auth)
    /\ UNCHANGED <<gatewayVars, formVars, classified, tickets, status_history, view>>
    /\ UNCHANGED <<serviceVars, scoreVars, numberVars, auth>>

\* the Navigate element a ProtectedRoute rendered takes effect
NavigateEffect ==
    /\ screen.element = "Navigate"
    /\ page' = screen.to
    /\ screen' = Render(screen.to, auth)
    /\ UNCHANGED <<gatewayVars, formVars, classified, tickets, status_history, view>>
    /\ UNCHANGED <<serviceVars, scoreVars, numberVars, auth>>

\* the effect of Index: with loading over and a profile at hand it
\* navigates to the home route of the role
IndexEffect ==
    /\ Routes[page].element = "Index"
    /\ IndexTarget(auth) # ""
    /\ page' = IndexTarget(auth)
    /\ screen' = Render(IndexTarget(auth), auth)
    /\ UNCHANGED <<gatewayVars, formVars, classified, tickets, status_history, view>>
    /\ UNCHANGED <<serviceVars, scoreVars, numberVars, auth>>

RouteNext ==
    \/ \E state \in AuthStates : AuthSettles(state)
    \/ \E profile \in UserRoles \cup {Null} : SignIn(profile)
    \/ SignOut
    \/ \E path \in Paths : Visit(path)
    \/ NavigateEffect
    \/ IndexEffect

RouteSpec == RouteInit /\ [][RouteNext]_vars

\* React runs the effects of what it has rendered
FairRouteSpec == RouteSpec /\ WF_vars(NavigateEffect) /\ WF_vars(IndexEffect)

\* The code's own steps are taken once they can be; whether and when the
\* endpoint answers, and whether a caller calls, is not up to the code.
FairSpec == Spec /\ WF_vars(ClassifyWithAPISettles) /\ WF_vars(DirectReturn)

(***************************************************************************)
(* The classification gateway: claims C1 to C4 and C6 to C10.              *)
(***************************************************************************)
\* the department codes of the system: those of the local keyword table
\* and those of the service's code map
DepartmentCodes ==
    {CATEGORY_MAPPINGS[i].code : i \in 1..Len(CATEGORY_MAPPINGS)}
        \cup {DEPT_CODE_MAP[i][2] : i \in 1..Len(DEPT_CODE_MAP)}

\* the remote result of a response that classifyWithAPI accepts
RemoteValue(response) ==
    [predicted_category |-> Get(response.body, "department"),
     confidence |-> ConfidenceOr(response.body)]

\* a body that is no JSON, or JSON of neither documented shape
Malformed(b) ==
    \/ b.json # "object"
    \/ b.keys \cap {"department", "predicted_category"} = {}

\* the remote call of the call in progress has failed
RemoteFailed ==
    \/ net.state = "rejected"
    \/ /\ net.state = "resolved"
       /\ ~(net.response.status \in 200..299) \/ Malformed(net.response.body)

\* C1: every classifyTicket call that has ended has returned exactly one
\* result, which is either the result of a remote call that succeeded or
\* the result of the local classifier; a call that has not ended has
\* returned nothing.
C1_ExactlyOneResult ==
    /\ pc # "done" => returns = <<>>
    /\ pc = "done" =>
        /\ Len(returns) = 1
        /\ \/ /\ returns[1].source = "remote"
              /\ net.state = "resolved"
              /\ net.response.status \in 200..299
              /\ returns[1].value = RemoteValue(net.response)
           \/ /\ returns[1].source = "local"
              /\ returns[1].value = LocalResults[<<params.title, params.body>>]

C1_Witness ==
    /\ pc = "done"
    /\ ML_API_URL # ""
    /\ net.state = "resolved"
    /\ returns[1].source = "remote"

\* C2: with an endpoint configured, a call whose remote call failed
\* (network error, status that is not 2xx, body that is no JSON or JSON of
\* the wrong shape) ends with the local classifier's result and with
\* nothing of the remote outcome.
C2_RemoteFailureFallsBack ==
    (pc = "done" /\ ML_API_URL # "" /\ RemoteFailed) =>
        returns = <<[source |-> "local",
                     value |-> LocalResults[<<params.title, params.body>>]]>>

\* C3: when the endpoint answers HTTP 500 the call returns what
\* classifyTicket returns for the same title and body with no endpoint
\* configured: the local classifier's code and confidence.
C3_Http500EqualsLocal ==
    (pc = "done" /\ net.state = "resolved" /\ net.response.status = 500) =>
        /\ Len(returns) = 1
        /\ returns[1].value = LocalResults[<<params.title, params.body>>]
        /\ returns[1].source = "local"

C3_Witness ==
    /\ pc = "done"
    /\ net.state = "resolved"
    /\ net.response.status = 500
    /\ net.response.body.json = "object"
    /\ "department" \in net.response.body.keys
    /\ Len(returns) = 1

\* C4: for a non-empty title and body, on the local path and on the
\* remote path (a 2xx answer of a documented shape), the returned
\* predicted_category is one of the department codes and the confidence
\* lies in [0, 1].
C4_CodeAndConfidenceInRange ==
    (/\ pc = "done"
     /\ params.title # ""
     /\ params.body # ""
     /\ Len(returns) = 1
     /\ returns[1].source = "remote" => ~Malformed(net.response.body)) =>
        /\ returns[1].value.predicted_category \in DepartmentCodes
        /\ returns[1].value.confidence \in 0..100

\* C6: a call waiting for the endpoint's answer eventually ends with a
\* result, also when the endpoint never answers.
C6_CallEventuallyReturns == (pc = "awaitFetch") ~> (pc = "done")

\* C7: a call issues at most one HTTP request, exactly one when an
\* endpoint is configured, and a call whose request failed (the fetch
\* rejected, or classifyWithAPI threw on the answer) has ended with the
\* local result and still that one request.
C7_AtMostOneRequest ==
    /\ Len(requests) <= 1
    /\ (pc \in {"awaitFetch", "gotResponse", "done"} /\ ML_API_URL # "") => Len(requests) = 1
    /\ (/\ pc = "done"
        /\ \/ net.state = "rejected"
           \/ net.state = "resolved" /\ classifyWithAPI(net.response).threw) =>
            /\ Len(requests) = 1
            /\ Len(returns) = 1
            /\ returns[1].source = "local"

C7_Witness ==
    /\ pc = "done"
    /\ net.state = "rejected"
    /\ Len(requests) = 1
    /\ returns[1].source = "local"

\* the categories the local classifier can name
LocalCategories == {CATEGORY_MAPPINGS[i].category : i \in 1..Len(CATEGORY_MAPPINGS)}

\* C8: with no endpoint configured a call issues no request, never waits,
\* and ends with one local result (a category of the keyword table and a
\* confidence between 0.65 and 0.9), for every title and body, the empty
\* ones and those without any keyword included.
C8_NoEndpointLocalOnly ==
    ML_API_URL = "" =>
        /\ requests = <<>>
        /\ net.state = "none"
        /\ pc \in {"idle", "done"}
        /\ pc = "done" =>
            /\ Len(returns) = 1
            /\ returns[1].source = "local"
            /\ returns[1].value.predicted_category \in LocalCategories
            /\ returns[1].value.confidence \in 65..90
            /\ returns[1].value = LocalResults[<<params.title, params.body>>]

C8_Witness ==
    /\ ML_API_URL = ""
    /\ pc = "done"
    /\ params.title = ""
    /\ params.body = ""
    /\ returns[1].value.predicted_category = "ACAD_OFFICE"

\* C9: a call with the title and body of the preceding call returns the
\* department code the preceding call returned (both calls having returned
\* a category), and the same confidence when both took the local path.
C9_SameInputSameCode ==
    (/\ pc = "done"
     /\ Len(returns) = 1
     /\ last.set
     /\ last.title = params.title
     /\ last.body = params.body
     /\ returns[1].value.predicted_category # Undefined
     /\ last.value.predicted_category # Undefined) =>
        /\ returns[1].value.predicted_category = last.value.predicted_category
        /\ (returns[1].source = "local" /\ last.source = "local") =>
                returns[1].value.confidence = last.value.confidence

\* C10: on the local path, whenever the rule router matches the text (as
\* it does for every text with "final exam" and "marksheet"), the returned
\* code is the code of the router's department.
C10_RuleBeforeModel ==
    (/\ pc = "done"
     /\ Len(returns) = 1
     /\ returns[1].source = "local"
     /\ rule_based_exam_router(params.title \o " " \o params.body) # None) =>
        returns[1].value.predicted_category =
            DeptCodeGet(rule_based_exam_router(params.title \o " " \o params.body))

\* a 2xx answer whose body has one of the two documented shapes
DocumentedShape(response) ==
    /\ response.status \in 200..299
    /\ response.body.json = "object"
    /\ \/ response.body.keys = {"predicted_category", "confidence"}
       \/ response.body.keys = {"department", "confidence"}

\* C12: a call answered 2xx in a documented shape (with a confidence above
\* 0) returns the value of the body's predicted_category or department
\* field as predicted_category, and the body's confidence as confidence.
C12_DocumentedShapesReturned ==
    (/\ pc = "done"
     /\ net.state = "resolved"
     /\ DocumentedShape(net.response)
     /\ net.response.body.confidence > 0) =>
        /\ Len(returns) = 1
        /\ returns[1].value.predicted_category =
                (IF "predicted_category" \in net.response.body.keys
                 THEN net.response.body.predicted_category
                 ELSE net.response.body.department)
        /\ returns[1].value.confidence = net.response.body.confidence

\* the separators the code joins title and body with
Separators == {" ", ". "}

\* C13: every request sent by a call with a title and a body carries as
\* its query the title and the body joined by a separator, never the title
\* alone or the body alone.
C13_QueryIsTitleAndBody ==
    (params.title # "" /\ params.body # "") =>
        \A i \in 1..Len(requests) :
            \E sep \in Separators :
                requests[i].query = params.title \o sep \o params.body

\* C16: on the local path the input "Mid sem machine learning exam query"
\* / "doubt about syllabus" is matched by the rule router (exam, mid-term,
\* machine learning: Data Science) and the call returns the code AIDS with
\* confidence 0.95.
C16_MidSemExample ==
    (/\ pc = "done"
     /\ Len(returns) = 1
     /\ returns[1].source = "local"
     /\ params.title = "Mid sem machine learning exam query"
     /\ params.body = "doubt about syllabus") =>
        /\ rule_based_exam_router(params.title \o ". " \o params.body) = "Data Science"
        /\ returns[1].value = [predicted_category |-> "AIDS", confidence |-> 95]

\* C17: on the local path the input "Cannot login to LMS" / "Getting error
\* when accessing Blackboard portal" gets the code IT_SUPPORT with a
\* confidence of at least 0.5 (and at most 1).
C17_LmsExample ==
    (/\ pc = "done"
     /\ Len(returns) = 1
     /\ returns[1].source = "local"
     /\ params.title = "Cannot login to LMS"
     /\ params.body = "Getting error when accessing Blackboard portal") =>
        /\ returns[1].value.predicted_category = "IT_SUPPORT"
        /\ returns[1].value.confidence \in 50..100

C17_Witness ==
    /\ pc = "done"
    /\ ML_API_URL = ""
    /\ params.title = "Cannot login to LMS"
    /\ params.body = "Getting error when accessing Blackboard portal"
    /\ returns = <<[source |-> "local",
                    value |-> [predicted_category |-> "IT_SUPPORT", confidence |-> 75]]>>

(***************************************************************************)
(* The local keyword classifier: claim C24.                                *)
(***************************************************************************)
\* the places of text at which keyword stands as a whole word
WholeWordAt(text, keyword) ==
    {i \in 1..(Len(text) - Len(keyword) + 1) :
        /\ SubSeq(text, i, i + Len(keyword) - 1) = keyword
        /\ i = 1 \/ ~IsWordChar(Char(text, i - 1))
        /\ i + Len(keyword) - 1 = Len(text) \/ ~IsWordChar(Char(text, i + Len(keyword)))}

\* the whole-word occurrences of the keywords of category c in text
OccurrencesOf(text, c) ==
    LET keywords == CATEGORY_MAPPINGS[c].keywords
    IN  Cardinality(UNION {{<<k, i>> : i \in WholeWordAt(text, keywords[k])} :
                                k \in 1..Len(keywords)})

\* the category with the most occurrences, the first declared of several,
\* and ACAD_OFFICE when there is no occurrence
MostOccurrences(t, b) ==
    LET text == toLowerCase(t \o " " \o b)
        n == [c \in 1..Len(CATEGORY_MAPPINGS) |-> OccurrencesOf(text, c)]
        top == {c \in DOMAIN n : \A d \in DOMAIN n : n[c] >= n[d]}
        first == CHOOSE c \in top : \A d \in top : c <= d
    IN  [category |-> IF n[first] = 0 THEN "ACAD_OFFICE"
                      ELSE CATEGORY_MAPPINGS[first].category,
         count |-> n[first],
         tied |-> Cardinality(top)]

\* MostOccurrences on the inputs of the model, tabulated once
RECURSIVE MostOccurrencesTable(_)
MostOccurrencesTable(inputs) ==
    LET in == CHOOSE x \in inputs : TRUE
        row == in :> MostOccurrences(in[1], in[2])
    IN  IF inputs = {in} THEN row ELSE row @@ MostOccurrencesTable(inputs \ {in})

Expected == MostOccurrencesTable(Titles \X Bodies)

\* C24: every result of the local path names the category whose keywords
\* occur most often as whole words in the lower-case text of title, a
\* space and body: the first declared of the categories that share the
\* greatest count, and ACAD_OFFICE when no keyword occurs.
C24_LocalIsFirstArgmax ==
    \A i \in 1..Len(returns) :
        returns[i].source = "local" =>
            returns[i].value.predicted_category =
                Expected[<<params.title, params.body>>].category

\* a local result for a text in which two categories share the greatest
\* count
C24_Witness ==
    /\ pc = "done"
    /\ Len(returns) = 1
    /\ returns[1].source = "local"
    /\ Expected[<<params.title, params.body>>].tied = 2
    /\ Expected[<<params.title, params.body>>].count = 2
    /\ returns[1].value.predicted_category = "FEES"

(***************************************************************************)
(* The ticket-creation page: claim C5.                                     *)
(***************************************************************************)
\* C5: whenever handleClassify has ended its classify step for a valid
\* title and body, with the departments fetched, a department is chosen,
\* whatever category classifyTicket returned.
C5_ClassificationNeverBlocks ==
    (hc = "ended" /\ toast # "Failed to fetch departments") => prediction.set

(***************************************************************************)
(* The classifier service: claims C11, C15 and C19 to C22.                  *)
(***************************************************************************)
\* the labels the department code map has a code for
MapLabels == {DEPT_CODE_MAP[i][1] : i \in 1..Len(DEPT_CODE_MAP)}

\* the label a request has to resolve: the rule router's department or the
\* sub-classifier's prediction, "" while there is none
LabelOf(req) == IF req.dept \notin {"", None} THEN req.dept ELSE req.dept_pred

\* C11: the resolver is total.  A request whose label (rule match or model
\* output) is absent from the department code map resolves to ACAD_OFFICE
\* and is answered 200 with that code; a label present in the map resolves
\* to its mapped code; no request fails once it has a label.
C11_ResolverTotal ==
    \A r \in 1..NumRequests :
        LET req == reqs[r]
            label == LabelOf(req)
        IN  /\ (req.pc = "responded" /\ label = "") => req.response.status = 500
            /\ (req.pc = "responded" /\ label # "") =>
                    /\ label \notin MapLabels => req.code = "ACAD_OFFICE"
                    /\ label \in MapLabels =>
                            \E i \in 1..Len(DEPT_CODE_MAP) :
                                DEPT_CODE_MAP[i] = <<label, req.code>>
                    /\ req.response.status = 200
                    /\ req.response.predicted_category = req.code

C11_Witness ==
    \E r \in 1..NumRequests :
        /\ reqs[r].pc = "responded"
        /\ reqs[r].dept_pred = "Robotics"
        /\ reqs[r].response.status = 200
        /\ reqs[r].response.predicted_category = "ACAD_OFFICE"

\* predict_department run from its first line to its return with nothing
\* else running
predict_department(query, artifacts) ==
    LET dept == rule_based_exam_router(query)
        processed == preprocess_text(query)
        broad_pred == predict(artifacts.broad_clf, processed)
        clf == IF broad_pred = "Admin_Services" THEN artifacts.admin_clf
               ELSE artifacts.tech_clf
        sub == SubClassify(clf, processed)
    IN  IF dept # None
        THEN [raised |-> FALSE, code |-> DeptCodeGet(dept), confidence |-> 95]
        ELSE IF broad_pred = Raised \/ sub.raised
        THEN [raised |-> TRUE, code |-> "", confidence |-> 0]
        ELSE [raised |-> FALSE, code |-> DeptCodeGet(sub.dept_pred),
              confidence |-> sub.confidence]

\* classify run alone: the response to a request
classify(t, b, artifacts) ==
    LET out == predict_department(t \o ". " \o b, artifacts)
    IN  IF out.raised
        THEN [status |-> 500, predicted_category |-> "", confidence |-> 0]
        ELSE [status |-> 200, predicted_category |-> out.code,
              confidence |-> out.confidence]

\* C15: whatever the interleaving of the requests being handled, no step
\* changes the department code map or the loaded artifacts, and every
\* response is the response the request gets when it is handled alone.
C15_RequestsDoNotInterfere ==
    [][/\ deptCodeMap' = deptCodeMap
       /\ models' = models
       /\ \A r \in 1..NumRequests :
            reqs'[r].pc = "responded" =>
                reqs'[r].response = classify(reqs'[r].title, reqs'[r].body, models)]_vars

C15_Witness ==
    \E r1 \in 1..NumRequests, r2 \in 1..NumRequests :
        /\ reqs[r1].pc = "responded"
        /\ reqs[r1].response.status = 200
        /\ reqs[r2].pc = "resolve"
        /\ reqs[r1].full_query # reqs[r2].full_query

\* the sub-classifier the broad prediction selects for a request
SelectedClf(req) ==
    IF predict(models.broad_clf, preprocess_text(req.full_query)) = "Admin_Services"
    THEN models.admin_clf ELSE models.tech_clf

\* the request has gone through the try statement of predict_department
\* and the decision_function call of its sub-classifier failed, predict
\* working
DecisionFailed(req) ==
    /\ req.dept = None
    /\ req.pc \in {"resolve", "responded"}
    /\ SelectedClf(req).decision # "ok"
    /\ predict(SelectedClf(req), preprocess_text(req.full_query)) # Raised

\* C19: a request whose sub-classifier fails to give decision scores is
\* not failed for it: it carries the label the sub-classifier predicts
\* with confidence 0.75, resolves the label's code, and is answered 200
\* with that code and 0.75.
C19_DecisionFailureSwallowed ==
    \A r \in 1..NumRequests :
        LET req == reqs[r]
        IN  DecisionFailed(req) =>
                /\ req.dept_pred = predict(SelectedClf(req), preprocess_text(req.full_query))
                /\ req.confidence = 75
                /\ req.pc = "responded" =>
                        req.response = [status |-> 200,
                                        predicted_category |-> DeptCodeGet(req.dept_pred),
                                        confidence |-> 75]

C19_Witness ==
    \E r \in 1..NumRequests :
        /\ DecisionFailed(reqs[r])
        /\ reqs[r].pc = "responded"
        /\ reqs[r].response.confidence = 75
        /\ reqs[r].response.predicted_category = "IT_ENG"

\* the router's keyword lists, as the query is searched for them
HasExamKeyword(query) == AnyIn(exam_keywords, toLowerCase(query))
HasFinalKeyword(query) == AnyIn(final_keywords, toLowerCase(query))
HasMidKeyword(query) == AnyIn(mid_keywords, toLowerCase(query))

\* C20: the rule router gives no match, and the request goes on to the
\* models, for a query without exam keyword (with or without a final or
\* mid-term keyword) and for a query with an exam keyword but neither a
\* final nor a mid-term keyword; every other query is matched.
C20_RouterDefers ==
    \A r \in 1..NumRequests :
        LET req == reqs[r]
            defers == \/ ~HasExamKeyword(req.full_query)
                      \/ ~(HasFinalKeyword(req.full_query) \/ HasMidKeyword(req.full_query))
        IN  req.pc \notin {"idle", "route"} =>
                /\ defers => req.dept = None
                /\ defers => rule_based_exam_router(req.full_query) = None
                /\ (defers /\ req.response.status = 200) => req.dept_pred # ""
                /\ ~defers => req.dept \in MapLabels

C20_Witness ==
    \E r1 \in 1..NumRequests, r2 \in 1..NumRequests :
        /\ reqs[r1].pc = "ml"
        /\ HasMidKeyword(reqs[r1].full_query)
        /\ ~HasExamKeyword(reqs[r1].full_query)
        /\ reqs[r2].pc = "ml"
        /\ HasExamKeyword(reqs[r2].full_query)
        /\ ~HasMidKeyword(reqs[r2].full_query)

\* the query holds subject i of the subject table
HasSubject(query, i) == includes(toLowerCase(query), subject_map[i][1])

\* C21: a request whose query has an exam keyword is routed to "Exam Cell"
\* when a final-exam keyword occurs, whatever else occurs; otherwise, when a
\* mid-term keyword occurs, to the department of the first entry of the
\* subject table whose subject occurs in the query, and to "General
\* Inquiry" when no subject occurs.
C21_FinalThenMidBySubject ==
    \A r \in 1..NumRequests :
        LET req == reqs[r]
            q == req.full_query
        IN  (req.pc \notin {"idle", "route"} /\ HasExamKeyword(q)) =>
                /\ HasFinalKeyword(q) => req.dept = "Exam Cell"
                /\ (~HasFinalKeyword(q) /\ HasMidKeyword(q)) =>
                        \/ \E i \in 1..Len(subject_map) :
                                /\ HasSubject(q, i)
                                /\ \A j \in 1..(i - 1) : ~HasSubject(q, j)
                                /\ req.dept = subject_map[i][2]
                        \/ /\ \A i \in 1..Len(subject_map) : ~HasSubject(q, i)
                           /\ req.dept = "General Inquiry"

\* one request with a final and a mid-term keyword and a subject routed to
\* Exam Cell, another whose query names deep learning before machine
\* learning routed by the table's first entry
C21_Witness ==
    \E r1 \in 1..NumRequests, r2 \in 1..NumRequests :
        /\ reqs[r1].pc = "responded"
        /\ HasExamKeyword(reqs[r1].full_query)
        /\ HasFinalKeyword(reqs[r1].full_query)
        /\ HasMidKeyword(reqs[r1].full_query)
        /\ HasSubject(reqs[r1].full_query, 2)
        /\ reqs[r1].dept = "Exam Cell"
        /\ reqs[r2].pc = "responded"
        /\ ~HasFinalKeyword(reqs[r2].full_query)
        /\ HasSubject(reqs[r2].full_query, 1)
        /\ HasSubject(reqs[r2].full_query, 2)
        /\ reqs[r2].dept = "Data Science"

\* the router matches the query: an exam keyword with a final or a
\* mid-term keyword
RuleMatches(query) ==
    /\ HasExamKeyword(query)
    /\ HasFinalKeyword(query) \/ HasMidKeyword(query)

\* C22: a request answered from a rule match carries confidence 0.95,
\* whatever department the match names; a request answered by the models
\* carries the confidence derived from the decision scores of its
\* sub-classifier, or 0.75 when there are none, and not the rule constant.
C22_RuleConfidenceFixed ==
    \A r \in 1..NumRequests :
        LET req == reqs[r]
        IN  (req.pc = "responded" /\ req.response.status = 200) =>
                /\ RuleMatches(req.full_query) => req.response.confidence = 95
                /\ ~RuleMatches(req.full_query) =>
                        req.response.confidence =
                            IF SelectedClf(req).decision = "ok"
                            THEN decisionConfidence(SelectedClf(req).minScore)
                            ELSE 75

\* a rule match that falls back to General Inquiry answered with 0.95
\* beside a request the models answered with another confidence
C22_Witness ==
    \E r1 \in 1..NumRequests, r2 \in 1..NumRequests :
        /\ reqs[r1].pc = "responded"
        /\ reqs[r1].dept = "General Inquiry"
        /\ reqs[r1].response = [status |-> 200, predicted_category |-> "ACAD_OFFICE",
                                confidence |-> 95]
        /\ reqs[r2].pc = "responded"
        /\ reqs[r2].dept = None
        /\ reqs[r2].response.status = 200
        /\ reqs[r2].response.confidence # 95

(***************************************************************************)
(* The confidence derivation: claim C23.                                   *)
(***************************************************************************)
\* C23: the confidence derived from decision scores is 1/(1+|m|) for the
\* minimum m of the scores, to the nearest hundredth, held to 0.5 from
\* below and to 0.99 from above; it lies in [0.5, 0.99], and of two
\* derivations the one with the larger |m| has no larger confidence.
C23_ConfidenceClampedMonotone ==
    LET m == scoring.min
        d == 100 + Abs(m)
        c == scoring.confidence
    IN  /\ scoring.set =>
                /\ \E i \in 1..Len(scoring.scores) : m = scoring.scores[i]
                /\ \A i \in 1..Len(scoring.scores) : m <= scoring.scores[i]
                /\ c >= 50 /\ c <= 99
                /\ 10000 >= 99 * d => c = 99
                /\ 10000 <= 50 * d => c = 50
                /\ (10000 < 99 * d /\ 10000 > 50 * d) => 2 * Abs(c * d - 10000) <= d
        /\ (scoring.set /\ prior.set) =>
                /\ Abs(prior.min) <= Abs(m) => prior.confidence >= c
                /\ Abs(prior.min) >= Abs(m) => prior.confidence <= c

\* two derivations between the limits, the later one from a vector of two
\* scores with a negative minimum of larger size
C23_Witness ==
    /\ scoring.set
    /\ prior.set
    /\ Len(scoring.scores) = 2
    /\ scoring.min < 0
    /\ Abs(prior.min) < Abs(scoring.min)
    /\ scoring.confidence > 50
    /\ scoring.confidence < prior.confidence
    /\ prior.confidence < 99

(***************************************************************************)
(* Ticket numbers: claim C28.                                              *)
(***************************************************************************)
\* C28: the numbers generateTicketNumber has returned to different
\* students differ, and no insert fails on the UNIQUE constraint of
\* ticket_no.
C28_TicketNumbersUnique ==
    /\ \A s1 \in 1..NumStudents, s2 \in 1..NumStudents :
            (s1 # s2 /\ submits[s1].ticket_no # "") =>
                submits[s1].ticket_no # submits[s2].ticket_no
    /\ \A s \in 1..NumStudents : submits[s].pc # "failed"

(***************************************************************************)
(* Ticket creation and the status workflow: claims C14, C18, C25 to C27.    *)
(***************************************************************************)
\* C14: the ticket row handleSubmit inserts stores as predicted_category
\* and predicted_confidence the predicted_category and the confidence that
\* classifyTicket returned for the ticket.
C14_ResultPersistedVerbatim ==
    [][\A i \in 1..Len(tickets') :
            i > Len(tickets) =>
                /\ classified.set
                /\ tickets'[i].predicted_category = classified.predicted_category
                /\ tickets'[i].predicted_confidence = classified.confidence]_vars

\* the place of a status in the workflow OPEN -> UNDER_REVIEW -> CLOSED
StatusRank(status) ==
    CASE status = "OPEN" -> 1
      [] status = "UNDER_REVIEW" -> 2
      [] status = "CLOSED" -> 3
      [] OTHER -> 0

\* C18: every step leaves each ticket in one of the statuses OPEN,
\* UNDER_REVIEW, CLOSED, creates tickets in status OPEN, and moves the status
\* of an existing ticket forward in the workflow or not at all (a CLOSED
\* ticket stays CLOSED).
C18_StatusOnlyMovesForward ==
    [][\A i \in 1..Len(tickets') :
            /\ StatusRank(tickets'[i].status) > 0
            /\ i > Len(tickets) => tickets'[i].status = "OPEN"
            /\ i <= Len(tickets) =>
                    StatusRank(tickets'[i].status) >= StatusRank(tickets[i].status)]_vars

\* the status_history rows of ticket i, oldest first
HistoryOf(i) == SelectSeq(status_history, LAMBDA h : h.ticket_id = i)

\* C25: the status-history rows of a ticket form a chain: each row after
\* the first starts from the status the row before it ended in, the status
\* of the ticket is the to_status of its latest row, and a ticket without
\* rows has the status it was created with.
C25_HistoryIsAChain ==
    \A i \in 1..Len(tickets) :
        LET rows == HistoryOf(i)
        IN  /\ \A k \in 2..Len(rows) : rows[k].from_status = rows[k - 1].to_status
            /\ Len(rows) > 0 => tickets[i].status = rows[Len(rows)].to_status
            /\ Len(rows) = 0 => tickets[i].status = "OPEN"

\* C26: the row handleSubmit inserts carries the title and body that were
\* classified for the prediction it is submitted with, and the department
\* of that prediction.
C26_SubmittedTextIsClassifiedText ==
    [][\A i \in 1..Len(tickets') :
            i > Len(tickets) =>
                /\ classified.set
                /\ tickets'[i].title = classified.title
                /\ tickets'[i].body = classified.body
                /\ tickets'[i].department_id = prediction.departmentId]_vars

\* C27: every ticket row has its initial status-history row (from null to
\* OPEN), and every status-history row belongs to a ticket row.
C27_NoPartialRecord ==
    /\ \A i \in 1..Len(tickets) :
            \E k \in 1..Len(status_history) :
                status_history[k] = [ticket_id |-> i, from_status |-> Null,
                                     to_status |-> "OPEN"]
    /\ \A k \in 1..Len(status_history) :
            status_history[k].ticket_id \in 1..Len(tickets)

(***************************************************************************)
(* The routes: claims C29 and C30.                                         *)
(***************************************************************************)
\* C29: on a protected route the children are rendered exactly when loading
\* is over, user and profile are present and the role of the profile is
\* among the allowedRoles given; while loading the spinner is rendered,
\* without user or profile the redirect to the sign-in route, and with a
\* role that is not allowed the redirect to "/".
C29_ProtectedRouteAdmitsOnlyAllowed ==
    Routes[page].protected =>
        LET allowed == Routes[page].allowedRoles
            present == auth.user /\ auth.profile # Null
            permitted == allowed.given => auth.profile \in allowed.roles
        IN  /\ screen.element = "children" <=> (~auth.loading /\ present /\ permitted)
            /\ auth.loading => screen = Element("Loading...", "")
            /\ (~auth.loading /\ ~present) =>
                    screen = Element("Navigate", "/auth/student/sign-in")
            /\ (~auth.loading /\ present /\ ~permitted) =>
                    screen = Element("Navigate", "/")

C29_Witness ==
    /\ page = "/dept/inbox"
    /\ auth = [loading |-> FALSE, user |-> TRUE, profile |-> "dept_admin"]
    /\ screen.element = "children"

\* the home route of a role
HomeRoute(role) ==
    CASE role \in {"student", "teacher"} -> "/dashboard/student"
      [] role = "dept_admin" -> "/dept/inbox"
      [] role = "main_admin" -> "/admin/overview"

\* C30: with loading over, Index shows the welcome page when no user is
\* signed in; its effect navigates to the home route of the role, where
\* ProtectedRoute renders the children; and for a signed-in user it does
\* not stay on the "Redirecting..." screen forever.
C30_IndexLeavesRedirecting ==
    /\ []((Routes[page].element = "Index" /\ ~auth.loading /\ ~auth.user) =>
            screen.element = "WelcomePage")
    /\ [][IndexEffect =>
            /\ page' = HomeRoute(auth.profile)
            /\ screen'.element = "children"]_vars
    /\ (Routes[page].element = "Index" /\ ~auth.loading /\ auth.user)
            ~> (screen.element # "Redirecting...")
====
